---- MODULE Spec2Model ----
(***************************************************************************)
(* Model of the FUT pack Monte Carlo simulation:                           *)
(*   src/src/simulation.py  _build_distribution, run_single_trial,         *)
(*                          run_many_trials                                *)
(*   src/src/main.py        quantile, main                                 *)
(*                                                                         *)
(* Probabilities are exact multiples of 1/Scale (the integer k stands for  *)
(* k/Scale, so Scale stands for 1.0); float rounding is not modelled.      *)
(* random.Random(seed) is a deterministic stream: `tape` is the part of    *)
(* that stream drawn so far, and a generator re-seeded with the same seed  *)
(* replays it.  random.Random() (no seed) is seeded from the OS: each of   *)
(* its outputs is an unconstrained choice.                                 *)
(***************************************************************************)
EXTENDS Integers, Sequences, FiniteSets, TLC

\* ---------------------------------------------------------------- bounds
\* probabilities are multiples of 1/Scale; lists hold up to MaxPlayers players;
\* n_trials is at most MaxTrials; a trial, and the seeded stream of a batch,
\* are followed for MaxDraws draws
Scale == 2
MaxPlayers == 2
MaxTrials == 2
MaxDraws == 5
\* quantile: q is a multiple of 1/QDen, lists hold up to MaxVals values of 1 .. MaxVal
QDen == 4
MaxVals == 4
MaxVal == 4

\* player_name column of the CSV: any string, the loader does not validate it
Names == {"A", "B", "OTHER"}
\* p column of the CSV: any float, the loader does not validate it
Probs == (0 - 1) .. (Scale + 2)
Seeds == {42}

TargetPlayer == [name : Names, p : Probs]
PlayerLists == UNION {[1 .. n -> TargetPlayer] : n \in 0 .. MaxPlayers}

VARIABLES entry, players, n_trials, seed, pc, err, ret,
          rng, tape, seedings, trial_rng,
          outcomes, probs, target_set, collected, packs_opened, draw,
          history, results, run, first,
          qpc, results_sorted, sorted_vals, q, qret

simVars == <<entry, players, n_trials, seed, pc, err, ret,
             rng, tape, seedings, trial_rng,
             outcomes, probs, target_set, collected, packs_opened, draw,
             history, results, run, first>>

statVars == <<qpc, results_sorted, sorted_vals, q, qret>>

vars == <<simVars, statVars>>

\* ------------------------------------------------------------ pure helpers
RECURSIVE SumSeq(_)
SumSeq(s) == IF s = <<>> THEN 0 ELSE s[1] + SumSeq(Tail(s))

NoValue == [kind |-> "None"]
IntValue(k) == [kind |-> "int", n |-> k]
ListValue(l) == [kind |-> "list", l |-> l]

NoError == "none"
NegativeProbability == "Probabilities must be non-negative."
SumExceeds == "Sum of target probabilities exceeds 1.0"
BadTrialCount == "n_trials must be > 0"

\* the name of the synthetic outcome
OtherName == "OTHER"

\* variant of _build_distribution: the sum is tested before the signs
BuildDistributionSumFirst(pls) ==
    LET p_hit == SumSeq([i \in 1 .. Len(pls) |-> pls[i].p])
    IN IF p_hit > Scale
       THEN [err |-> SumExceeds, outcomes |-> <<>>, probs |-> <<>>]
       ELSE IF \E i \in 1 .. Len(pls) : pls[i].p < 0
            THEN [err |-> NegativeProbability, outcomes |-> <<>>, probs |-> <<>>]
            ELSE [err |-> NoError,
                  outcomes |-> [i \in 1 .. Len(pls) |-> pls[i].name] \o <<OtherName>>,
                  probs |-> [i \in 1 .. Len(pls) |-> pls[i].p] \o <<Scale - p_hit>>]

\* _build_distribution(players): the error raised, or (outcomes, probs)
BuildDistribution(pls) ==
    IF \E i \in 1 .. Len(pls) : pls[i].p < 0
    THEN [err |-> NegativeProbability, outcomes |-> <<>>, probs |-> <<>>]
    ELSE LET p_hit == SumSeq([i \in 1 .. Len(pls) |-> pls[i].p])
         IN IF p_hit > Scale
            THEN [err |-> SumExceeds, outcomes |-> <<>>, probs |-> <<>>]
            ELSE LET outs == [i \in 1 .. Len(pls) |-> pls[i].name] \o <<OtherName>>
                     raw == [i \in 1 .. Len(pls) |-> pls[i].p] \o <<Scale - p_hit>>
                     s == SumSeq(raw)
                 IN [err |-> NoError,
                     outcomes |-> outs,
                     probs |-> [i \in 1 .. Len(raw) |-> (raw[i] * Scale) \div s]]

\* itertools.accumulate(weights)
CumWeights(w) == [i \in 1 .. Len(w) |-> SumSeq(SubSeq(w, 1, i))]

\* variant of the search: bisect_left, the number of entries < x
BisectLeft(a, x, hi) == Cardinality({i \in 1 .. hi : a[i] < x})

\* bisect.bisect(a, x, 0, hi) on a sorted list: the number of the first hi
\* entries that are <= x (a 0-based insertion point)
Bisect(a, x, hi) == Cardinality({i \in 1 .. hi : a[i] <= x})

\* rng.choices(outcomes, weights=probs, k=1)[0] when random() falls in
\* [r/Scale, (r+1)/Scale): the 1-based index of the outcome chosen
ChoiceIndex(w, r) ==
    LET cum == CumWeights(w)
        total == cum[Len(cum)]
        x == (r * total) \div Scale
    IN Bisect(cum, x, Len(w) - 1) + 1

\* the generator outputs random() can produce
RandomValues == 0 .. (Scale - 1)

NoRng == [kind |-> "None"]
SharedRng == [kind |-> "shared"]
OsRng(r) == [kind |-> "os", last |-> r]

\* ------------------------------------------------------------------ Init
Placeholders ==
    /\ err = NoError
    /\ ret = NoValue
    /\ rng = NoRng
    /\ tape = <<>>
    /\ seedings = 0
    /\ trial_rng = NoRng
    /\ outcomes = <<>>
    /\ probs = <<>>
    /\ target_set = {}
    /\ collected = {}
    /\ packs_opened = 0
    /\ draw = "none"
    /\ history = <<>>
    /\ results = <<>>
    /\ run = 1
    /\ first = NoValue
    /\ qpc = "idle"
    /\ results_sorted = <<>>
    /\ sorted_vals = <<>>
    /\ q = 0
    /\ qret = NoValue

\* a caller about to call run_single_trial(players) with no rng
InitTrial ==
    /\ entry = "run_single_trial"
    /\ players \in PlayerLists
    /\ n_trials = 1
    /\ seed \in Seeds
    /\ pc = "trial"
    /\ Placeholders

\* a caller about to call run_many_trials(players, n_trials, seed)
InitBatch ==
    /\ entry = "run_many_trials"
    /\ players \in PlayerLists
    /\ n_trials \in (0 - 1) .. MaxTrials
    /\ seed \in Seeds
    /\ pc = "call"
    /\ Placeholders

Init == InitTrial \/ InitBatch

\* --------------------------------------------------------------- actions
\* variant of the test of n_trials: `if n_trials < 0`
TrialCountInvalidStrict(n) == n < 0

\* run_many_trials: `if n_trials <= 0`
TrialCountInvalid(n) == n <= 0

\* variant of the call: run_single_trial(players), without rng=rng
PassedRngNone == NoRng

\* run_many_trials: the rng argument of run_single_trial(players, rng=rng)
PassedRng == SharedRng

\* run_many_trials up to its first trial: the n_trials check, then the one
\* seeding of the generator; range(n_trials) empty returns [] at once
ManyStart ==
    /\ pc = "call"
    /\ entry = "run_many_trials"
    /\ IF TrialCountInvalid(n_trials)
       THEN /\ pc' = "error"
            /\ err' = BadTrialCount
            /\ UNCHANGED <<rng, seedings, ret>>
       ELSE /\ rng' = [kind |-> "seeded", seed |-> seed, pos |-> 0]
            /\ seedings' = seedings + 1
            /\ err' = err
            /\ IF n_trials <= 0
               THEN pc' = "done" /\ ret' = ListValue(<<>>)
               ELSE pc' = "trial" /\ ret' = ret
    /\ results' = <<>>
    /\ UNCHANGED statVars
    /\ UNCHANGED <<entry, players, n_trials, seed, tape, trial_rng, outcomes, probs,
                   target_set, collected, packs_opened, draw, history, run, first>>

\* run_single_trial lines 66-72: `rng or random.Random()`, the distribution
\* (whose error propagates out of run_many_trials too), the empty collection
TrialStart ==
    /\ pc = "trial"
    /\ LET arg == IF entry = "run_many_trials" THEN PassedRng ELSE NoRng
           d == BuildDistribution(players)
       IN /\ trial_rng' = IF arg = NoRng THEN OsRng(0 - 1) ELSE arg
          /\ IF d.err # NoError
             THEN /\ pc' = "error"
                  /\ err' = d.err
                  /\ UNCHANGED <<outcomes, probs, target_set, collected,
                                 packs_opened, history>>
             ELSE /\ pc' = "loop"
                  /\ err' = err
                  /\ outcomes' = d.outcomes
                  /\ probs' = d.probs
                  /\ target_set' = {players[i].name : i \in 1 .. Len(players)}
                  /\ collected' = {}
                  /\ packs_opened' = 0
                  /\ history' = <<>>
    /\ UNCHANGED statVars
    /\ UNCHANGED <<entry, players, n_trials, seed, ret, rng, tape, seedings, draw,
                   results, run, first>>

\* variant of the loop: a do-while, whose body runs once before the first test
LoopRunsAtLeastOnce == collected # target_set \/ packs_opened = 0

\* `while collected != target_set`
LoopRuns == collected # target_set

\* one random() of the trial's generator: the seeded generator reads the
\* next element of its stream, the OS-seeded one yields any value
Random(r) ==
    IF trial_rng.kind = "shared"
    THEN /\ rng.pos < MaxDraws
         /\ IF rng.pos < Len(tape)
            THEN r = tape[rng.pos + 1] /\ tape' = tape
            ELSE tape' = Append(tape, r)
         /\ rng' = [rng EXCEPT !.pos = @ + 1]
         /\ trial_rng' = trial_rng
    ELSE /\ trial_rng' = OsRng(r)
         /\ UNCHANGED <<rng, tape>>

\* the body of the loop, lines 74-77, after random() gave r
LoopBody(r) ==
    LET d == outcomes[ChoiceIndex(probs, r)]
    IN /\ draw' = d
       /\ collected' = IF d # OtherName THEN collected \cup {d} ELSE collected

\* one iteration of the loop of run_single_trial
Draw ==
    /\ pc = "loop"
    /\ LoopRuns
    /\ packs_opened < MaxDraws
    /\ \E r \in RandomValues :
          /\ Random(r)
          /\ LoopBody(r)
          /\ history' = Append(history, ChoiceIndex(probs, r))
    /\ packs_opened' = packs_opened + 1
    /\ UNCHANGED statVars
    /\ UNCHANGED <<entry, players, n_trials, seed, pc, err, ret, seedings,
                   outcomes, probs, target_set, results, run, first>>

\* `return packs_opened`, and in run_many_trials the list comprehension
\* taking the value and either starting the next trial or returning the list
TrialReturn ==
    /\ pc = "loop"
    /\ ~LoopRuns
    /\ IF entry = "run_single_trial"
       THEN /\ pc' = "done"
            /\ ret' = IntValue(packs_opened)
            /\ results' = results
       ELSE /\ results' = Append(results, packs_opened)
            /\ IF Len(results') >= n_trials
               THEN pc' = "done" /\ ret' = ListValue(results')
               ELSE pc' = "trial" /\ ret' = ret
    /\ UNCHANGED statVars
    /\ UNCHANGED <<entry, players, n_trials, seed, err, rng, tape, seedings,
                   trial_rng, outcomes, probs, target_set, collected, packs_opened,
                   draw, history, run, first>>

\* the outcome of a finished call
Outcome == [pc |-> pc, err |-> err, ret |-> ret, draws |-> IF rng = NoRng THEN 0 ELSE rng.pos]

\* a second run_many_trials call with the same players, n_trials and seed
Rerun ==
    /\ entry = "run_many_trials"
    /\ pc \in {"done", "error"}
    /\ run = 1
    /\ run' = 2
    /\ first' = Outcome
    /\ pc' = "call"
    /\ err' = NoError
    /\ ret' = NoValue
    /\ rng' = NoRng
    /\ seedings' = 0
    /\ trial_rng' = NoRng
    /\ results' = <<>>
    /\ UNCHANGED statVars
    /\ UNCHANGED <<entry, players, n_trials, seed, tape, outcomes, probs, target_set,
                   collected, packs_opened, draw, history>>

Next == ManyStart \/ TrialStart \/ Draw \/ TrialReturn \/ Rerun

Spec == Init /\ [][Next]_vars

\* ------------------------------------------------- the trial, fair sampling
\* One iteration of the loop when random() gives r, as in Draw, with the
\* state kept finite: a count of MaxDraws stands for MaxDraws or more, and
\* the history of draws is not kept.
DrawLive(r) ==
    /\ pc = "loop"
    /\ LoopRuns
    /\ trial_rng' = OsRng(r)
    /\ LoopBody(r)
    /\ packs_opened' = IF packs_opened < MaxDraws THEN packs_opened + 1 ELSE MaxDraws
    /\ UNCHANGED statVars
    /\ UNCHANGED <<entry, players, n_trials, seed, pc, err, ret, rng, tape, seedings,
                   outcomes, probs, target_set, history, results, run, first>>

NextLive == TrialStart \/ (\E r \in RandomValues : DrawLive(r)) \/ TrialReturn

\* Fair sampling: every value random() can give is given again and again,
\* so every outcome with positive weight is drawn again and again.
SpecLive ==
    /\ InitTrial
    /\ [][NextLive]_vars
    /\ WF_vars(TrialStart)
    /\ WF_vars(TrialReturn)
    /\ \A r \in RandomValues : WF_vars(DrawLive(r))

\* ------------------------------------------------------------- quantile
RECURSIVE Insert(_, _)
Insert(x, s) ==
    IF s = <<>> THEN <<x>>
    ELSE IF x <= s[1] THEN <<x>> \o s ELSE <<s[1]>> \o Insert(x, Tail(s))

\* sorted(results)
RECURSIVE Sorted(_)
Sorted(s) == IF s = <<>> THEN <<>> ELSE Insert(s[1], Sorted(Tail(s)))

Min(a, b) == IF a <= b THEN a ELSE b

InvalidQuantile == "q must be within [0,1]"
EmptyList == "empty list"

\* variant of quantile: the weights of the two neighbours exchanged
QuantileSwapped(vals, qn) ==
    IF ~(0 <= qn /\ qn <= QDen) THEN [err |-> InvalidQuantile, num |-> 0]
    ELSE IF Len(vals) = 0 THEN [err |-> EmptyList, num |-> 0]
    ELSE LET n == Len(vals)
             lo == ((n - 1) * qn) \div QDen
             hi == Min(lo + 1, n - 1)
             frac == (n - 1) * qn - lo * QDen
         IN [err |-> NoError, num |-> vals[lo + 1] * frac + vals[hi + 1] * (QDen - frac)]

\* quantile(sorted_vals, q) for q = qn/QDen: the error raised, or the value
\* returned as num/QDen.  lo and hi are 0-based as in the source; frac is
\* (pos - lo) * QDen.
Quantile(vals, qn) ==
    IF ~(0 <= qn /\ qn <= QDen) THEN [err |-> InvalidQuantile, num |-> 0]
    ELSE IF Len(vals) = 0 THEN [err |-> EmptyList, num |-> 0]
    ELSE LET n == Len(vals)
             pos == (n - 1) * qn
             lo == pos \div QDen
             hi == Min(lo + 1, n - 1)
             frac == pos - lo * QDen
         IN [err |-> NoError, num |-> vals[lo + 1] * (QDen - frac) + vals[hi + 1] * frac]

ValueLists == UNION {[1 .. n -> 1 .. MaxVal] : n \in 0 .. MaxVals}

\* either main() holding the results of a batch, or a caller about to call
\* quantile on a list of its own
InitQuantile ==
    /\ entry = "quantile"
    /\ players = <<>>
    /\ n_trials = 0
    /\ seed \in Seeds
    /\ pc = "idle"
    /\ err = NoError
    /\ ret = NoValue
    /\ rng = NoRng
    /\ tape = <<>>
    /\ seedings = 0
    /\ trial_rng = NoRng
    /\ outcomes = <<>>
    /\ probs = <<>>
    /\ target_set = {}
    /\ collected = {}
    /\ packs_opened = 0
    /\ draw = "none"
    /\ history = <<>>
    /\ run = 1
    /\ first = NoValue
    /\ q \in (0 - 1) .. (QDen + 1)
    /\ qret = NoValue
    /\ \/ qpc = "main" /\ results \in ValueLists /\ results_sorted = <<>>
             /\ sorted_vals = <<>>
       \/ qpc = "call" /\ results = <<>> /\ results_sorted = <<>>
             /\ sorted_vals \in ValueLists

\* main: results_sorted = sorted(results), passed to quantile
MainSort ==
    /\ qpc = "main"
    /\ results_sorted' = Sorted(results)
    /\ sorted_vals' = results_sorted'
    /\ qpc' = "call"
    /\ UNCHANGED <<q, qret>>
    /\ UNCHANGED simVars

\* quantile(sorted_vals, q)
CallQuantile ==
    /\ qpc = "call"
    /\ qret' = Quantile(sorted_vals, q)
    /\ qpc' = IF qret'.err = NoError THEN "returned" ELSE "raised"
    /\ UNCHANGED <<results_sorted, sorted_vals, q>>
    /\ UNCHANGED simVars

NextQuantile == MainSort \/ CallQuantile

SpecQuantile == InitQuantile /\ [][NextQuantile]_vars

\* =============================================================== properties
AnyNegative == \E i \in 1 .. Len(players) : players[i].p < 0
AllPositive == \A i \in 1 .. Len(players) : players[i].p > 0
SumOfTargets == SumSeq([i \in 1 .. Len(players) |-> players[i].p])
NamesDistinct == \A i, j \in 1 .. Len(players) : i # j => players[i].name # players[j].name
NoCollision == \A i \in 1 .. Len(players) : players[i].name # OtherName
\* history holds, for each draw of the current trial, the index of the outcome
\* drawn: the indices up to Len(players) are the players', the last one is the
\* synthetic outcome's.  Sampled is the set of target names drawn.
TargetDraws(h) == {h[k] : k \in 1 .. Len(h)} \cap (1 .. Len(players))
SampledIn(h) == {players[i].name : i \in TargetDraws(h)}
Sampled == SampledIn(history)
IsBatch == entry = "run_many_trials"
IsSingle == entry = "run_single_trial"
\* no random() has been taken from any generator
NoDrawMade ==
    /\ tape = <<>>
    /\ history = <<>>
    /\ packs_opened = 0
    /\ rng # NoRng => rng.pos = 0
    /\ trial_rng.kind = "os" => trial_rng.last = 0 - 1

\* ---- C1 (a property of SpecLive)
\* C1: with all probabilities strictly positive and their sum at most 1, the
\* loop of run_single_trial, once entered, is eventually left and the trial
\* returns.
C1_Terminates == (pc = "loop" /\ AllPositive) ~> (pc = "done")

\* C1, for lists in which no player is named like the synthetic outcome: the
\* only lists on which C1_Terminates fails are those C8 is about.
C1_TerminatesWithoutCollision ==
    (pc = "loop" /\ AllPositive /\ NoCollision) ~> (pc = "done")

\* ---- C2
\* C2: the trial stops exactly when every target name has been sampled: the
\* counter equals the number of draws made, the loop is left at the first
\* draw after which every target name has appeared in the draws, the
\* synthetic outcome is never collected, and the counter is what is returned.
C2_StopsWhenAllSampled ==
    /\ pc = "loop" =>
         /\ packs_opened = Len(history)
         /\ collected \subseteq Sampled
         /\ (~LoopRuns) <=> (target_set \subseteq Sampled)
         /\ (~LoopRuns /\ history # <<>>) =>
               ~(target_set \subseteq SampledIn(SubSeq(history, 1, Len(history) - 1)))
    /\ (pc = "done" /\ IsSingle) => ret = IntValue(Len(history))

\* C2 on the lists without a player named like the synthetic outcome, where
\* in addition what is collected is the target names drawn
C2_StopsWhenAllSampledWithoutCollision ==
    NoCollision =>
      /\ C2_StopsWhenAllSampled
      /\ pc = "loop" => collected = Sampled

\* ---- C3
\* C3: with all probabilities strictly positive and their sum at most 1,
\* every value returned by run_single_trial, and every element of the list
\* run_many_trials returns, is at least the number of items of the list.
C3_AtLeastNumberOfItems ==
    AllPositive =>
      /\ (pc = "done" /\ IsSingle) => ret.n >= Len(players)
      /\ (pc = "done" /\ IsBatch) => \A i \in 1 .. Len(ret.l) : ret.l[i] >= Len(players)

\* C3 with the number of distinct target names in place of the number of items
C3_AtLeastNumberOfNames ==
    AllPositive =>
      /\ (pc = "done" /\ IsSingle) => ret.n >= Cardinality(target_set)
      /\ (pc = "done" /\ IsBatch) =>
            \A i \in 1 .. Len(ret.l) : ret.l[i] >= Cardinality(target_set)

\* ---- C4
\* C4: a second run_many_trials with the same item list, trial count and seed
\* ends as the first did, with the same result list; the generator is seeded
\* once per batch, the draws of the batch are the sum of the trials' counts,
\* and every trial starts from an empty collection and a zero counter.
C4_Deterministic ==
    IsBatch =>
      /\ (run = 2 /\ pc \in {"done", "error"}) => Outcome = first
      /\ pc \in {"trial", "loop", "done"} => seedings = 1
      /\ (pc = "loop" /\ history = <<>>) => (collected = {} /\ packs_opened = 0)
      /\ pc = "done" => SumSeq(ret.l) = rng.pos

C4_Witness ==
    /\ IsBatch /\ run = 2 /\ pc = "done"
    /\ Len(ret.l) = 2 /\ ret.l[1] # ret.l[2] /\ rng.pos >= 3
    /\ first.ret = ret

\* ---- C5
\* C5: run_many_trials returns a list of exactly n_trials counts of trials
\* that ran to completion, or raises and returns nothing; with n_trials <= 0
\* it raises "n_trials must be > 0" with no generator seeded and no draw made.
C5_CompleteOrError ==
    IsBatch =>
      /\ pc = "done" =>
           /\ ret.kind = "list" /\ ret.l = results
           /\ n_trials > 0 /\ Len(ret.l) = n_trials
           /\ err = NoError
           /\ ~LoopRuns /\ ret.l[Len(ret.l)] = packs_opened
           /\ SumSeq(ret.l) = rng.pos
      /\ pc # "done" => ret = NoValue
      /\ pc = "error" => err # NoError
      /\ (n_trials <= 0 /\ pc # "call") =>
           /\ pc = "error" /\ err = BadTrialCount
           /\ rng = NoRng /\ seedings = 0 /\ NoDrawMade

C5_Witness ==
    /\ IsBatch /\ pc = "done" /\ n_trials = 2
    /\ ret = ListValue(<<1, 2>>)

\* ---- C6
\* the first run_single_trial of the call has built its distribution
FirstTrialStarted == pc \notin {"call", "trial"} /\ (IsBatch => n_trials > 0)

\* C6: a list with a negative probability is refused with "Probabilities must
\* be non-negative." even when the sum also exceeds 1.0; a list with no
\* negative probability whose sum exceeds 1.0 is refused with "Sum of target
\* probabilities exceeds 1.0"; in both cases no draw has been made.
C6_InvalidItemsRejected ==
    /\ (FirstTrialStarted /\ AnyNegative) =>
          (pc = "error" /\ err = NegativeProbability /\ NoDrawMade)
    /\ (FirstTrialStarted /\ ~AnyNegative /\ SumOfTargets > Scale) =>
          (pc = "error" /\ err = SumExceeds /\ NoDrawMade)

C6_Witness ==
    /\ AnyNegative /\ SumOfTargets > Scale
    /\ pc = "error" /\ err = NegativeProbability

\* ---- C8
\* C8: the outcome names of every distribution the trial samples from are
\* pairwise distinct, the synthetic outcome's name being none of the players'.
C8_OutcomeNamesDistinct ==
    pc = "loop" =>
       \A i, j \in 1 .. Len(outcomes) : i # j => outcomes[i] # outcomes[j]

\* ---- C9
\* a list that passes both tests of _build_distribution, with the names
\* distinct and none of them the synthetic outcome's
ValidList ==
    /\ ~AnyNegative
    /\ SumOfTargets <= Scale
    /\ NamesDistinct
    /\ NoCollision

ZeroItems == {i \in 1 .. Len(players) : players[i].p = 0}

\* C9: on an otherwise valid list with an item of probability 0, that item's
\* name is never drawn, the loop condition stays true, no error is raised and
\* neither run_single_trial nor run_many_trials (n_trials > 0) returns.
C9_ZeroProbabilityNeverReturns ==
    (ValidList /\ ZeroItems # {} /\ (IsBatch => n_trials > 0)) =>
      /\ pc \notin {"done", "error"}
      /\ err = NoError /\ ret = NoValue
      /\ \A i \in ZeroItems : i \notin TargetDraws(history) /\ players[i].name \notin Sampled
      /\ pc = "loop" => LoopRuns

C9_Witness ==
    /\ ValidList /\ Len(players) = 2 /\ Cardinality(ZeroItems) = 1
    /\ pc = "loop" /\ Len(history) >= 3
    /\ Cardinality(collected) = 1

\* ---- C10
\* C10: on the empty list no error is raised by the trial and no draw is
\* made; run_single_trial returns 0 and run_many_trials (n_trials > 0) returns
\* n_trials zeros.
C10_EmptyListReturnsZero ==
    players = <<>> =>
      /\ NoDrawMade
      /\ (pc = "loop") => ~LoopRuns
      /\ (IsSingle \/ n_trials > 0) => pc # "error"
      /\ (pc = "done" /\ IsSingle) => ret = IntValue(0)
      /\ (pc = "done" /\ IsBatch) => ret = ListValue([i \in 1 .. n_trials |-> 0])

C10_Witness ==
    /\ players = <<>> /\ IsBatch /\ n_trials = 2
    /\ pc = "done" /\ ret = ListValue(<<0, 0>>) /\ rng.pos = 0

\* ---- C7 (a property of SpecQuantile)
IsSortedAsc(s) == \A i \in 1 .. (Len(s) - 1) : s[i] <= s[i + 1]

\* the interpolated order statistic of the ascending list s at q = qn/QDen,
\* times QDen: pos = (n-1)*q, lo = floor(pos), hi = min(lo+1, n-1)
OrderStatistic(s, qn) ==
    LET n == Len(s)
        lo == CHOOSE k \in 0 .. n : k * QDen <= (n - 1) * qn /\ (n - 1) * qn < (k + 1) * QDen
        hi == IF lo + 1 <= n - 1 THEN lo + 1 ELSE n - 1
        w == (n - 1) * qn - lo * QDen
    IN s[lo + 1] * (QDen - w) + s[hi + 1] * w

QuantileCalled == qpc \in {"returned", "raised"}
ValidQuantileCall == sorted_vals # <<>> /\ 0 <= q /\ q <= QDen

\* what C7 says of the value returned for the list and q of the call
QuantileIsOrderStatistic ==
    /\ qpc = "returned"
    /\ qret.num = OrderStatistic(Sorted(sorted_vals), q)
    /\ q = 0 => \A i \in 1 .. Len(sorted_vals) : qret.num <= sorted_vals[i] * QDen
    /\ q = QDen => \A i \in 1 .. Len(sorted_vals) : qret.num >= sorted_vals[i] * QDen
    /\ (Sorted(sorted_vals) = <<1, 2, 3, 4>> /\ 2 * q = QDen) => 2 * qret.num = 5 * QDen

\* C7 as stated: for every non-empty list, ordered or not, and q in [0,1],
\* quantile returns the interpolated order statistic of the list sorted
\* ascending (2.5 for q = 0.5 on 1,2,3,4; the minimum for q = 0; the maximum
\* for q = 1).
C7_QuantileOfAnyList ==
    (QuantileCalled /\ ValidQuantileCall) => QuantileIsOrderStatistic

\* C7 as amended: the same, for every non-empty list that is sorted ascending
\* when quantile is called, as the list main passes is.
C7_QuantileOfSortedList ==
    /\ (QuantileCalled /\ ValidQuantileCall /\ IsSortedAsc(sorted_vals)) =>
          QuantileIsOrderStatistic
    /\ (qpc = "call" /\ results_sorted # <<>>) => IsSortedAsc(sorted_vals)

C7_Witness ==
    /\ qpc = "returned" /\ sorted_vals = <<1, 2, 3, 4>> /\ 2 * q = QDen
    /\ 2 * qret.num = 5 * QDen

====
